---- MODULE Spec2Model ----
(***************************************************************************)
(* The render cycle of rust-world-clock: the terminal loop run_app         *)
(* (src/main.rs) / run_app_loop (src/tui.rs), its alarm evaluation and     *)
(* dismissal, the grid placement computed by ui, and the startup and       *)
(* teardown of main around the loop with the two persisted records, and   *)
(* the windowed variant WorldClockApp (src/gui.rs).                        *)
(*                                                                         *)
(* Time is counted in whole seconds.  An instant is a number of seconds    *)
(* since midnight UTC of day 0; a NaiveTime is a number of seconds since   *)
(* midnight; a zone rule is its offset from UTC in seconds.                *)
(***************************************************************************)
EXTENDS Integers, Sequences, FiniteSets, TLC

VARIABLES
    wall,            \* the wall clock: the instant Local::now()/Utc::now() return
    local_tz,        \* the offset of the process's local-time rule
    clocks,          \* the Clock list handed to the loop
    alarms,          \* the alarm list handed to the loop
    pc,              \* "tick" (loop top), "ui" (inside ui), "poll", "done"
    result,          \* what the loop returned: "running", "ok", "err"
    dismissed_time,  \* Option<NaiveTime>
    local_now,       \* Option: the NaiveTime sampled at the top of this iteration
    is_alarm_active, \* the flag computed by this iteration
    size,            \* f.area() of this draw
    cols,            \* grid columns of this draw
    rows,            \* grid rows of this draw
    chunks,          \* the horizontal bands of this draw
    i,               \* ui's loop index: the next clock to place
    frame,           \* the render units this draw has emitted so far
    event,           \* the outcome of this iteration's event::poll / event::read
    tick_at,         \* history: the instant local_now was sampled from
    dismissed_at,    \* history: tick_at of the iteration that took the last dismissal,
                     \*   until an iteration samples another hour or minute
    cleared,         \* history: this iteration's stale check reset a dismissal
    mpc,             \* main's position: "alarms", "clocks", "setup", "run", "exit"
    args,            \* Args: [zones, alarms], the command line of this process
    config_dir,      \* ProjectDirs::from(..) is Some
    disk,            \* the files clocks.json and alarms.json
    term,            \* the terminal: raw mode, alternate screen, cursor shown
    stdout,          \* what the process has printed to standard output
    stderr,          \* what the process has printed to standard error
    main_result,     \* what main returned: "running", "ok", "err"
    calls,           \* history: the load_ / save_ functions this process has called
    written,         \* history: per record, the list the process that last wrote
                     \*   the file built from its command line, if it accepted it
    local_time,      \* WorldClockApp.local_time
    messages         \* the Message::Tick values sent and not yet handled

vars == <<wall, local_tz, clocks, alarms, pc, result, dismissed_time, local_now,
          is_alarm_active, size, cols, rows, chunks, i, frame, event, tick_at,
          dismissed_at, cleared, mpc, args, config_dir, disk, term, stdout,
          stderr, main_result, calls, written, local_time, messages>>

\* the state of the windowed variant
guivars == <<local_time, messages>>

\* the state of main outside the loop, but for the terminal
mainvars == <<mpc, args, config_dir, disk, stdout, stderr, main_result, calls,
              written>>

---------------------------------------------------------------------------
\* Bounds of the model.

\* days the wall clock ranges over: 0..MaxDay
MaxDay == 1
\* clocks handed to the loop in Spec: 0..MaxClocks
MaxClocks == 2
\* clocks handed to the loop in SpecGrid: 0..MaxGridClocks
MaxGridClocks == 6
\* canvas widths in SpecGrid: 0..MaxW
MaxW == 4
\* Tick messages sent and not yet handled in SpecGui: 0..MaxMessages
MaxMessages == 1
\* canvas heights in SpecGrid: 0..MaxH
MaxH == 9

\* "4 lines of text"
ContentHeight == 4

\* the borders a Block with Borders::ALL takes from the height
BorderHeight == 2

\* u16::MAX
MaxU16 == 65535

---------------------------------------------------------------------------
\* Option<T>

None == <<>>

Some(x) == <<x>>

---------------------------------------------------------------------------
\* chrono: NaiveTime and instants

HMS(h, m, s) == h * 3600 + m * 60 + s

Hour(t) == t \div 3600

Minute(t) == (t \div 60) % 60

Second(t) == t % 60

\* DateTime::time(): the time of day of an instant shifted by a zone offset
TimeIn(instant, tz) == (instant + tz) % 86400

\* the calendar date (as a day number) of an instant shifted by a zone offset
DateIn(instant, tz) == (instant + tz) \div 86400

\* Local::now().time()
LocalTime(instant, tz) == TimeIn(instant, tz)

---------------------------------------------------------------------------
\* The inputs the model draws from.

SampleTimes ==
    {HMS(8, 30, 0), HMS(8, 30, 15), HMS(8, 30, 59), HMS(8, 31, 0), HMS(9, 30, 0)}

Instants == {d * 86400 + t : d \in 0..MaxDay, t \in SampleTimes}

LocalZones == {0, 3600}

AlarmLists == {<<>>, <<HMS(8, 30, 0)>>, <<HMS(9, 30, 0), HMS(8, 30, 0)>>}

ZoneNames == <<"Europe/London", "Asia/Kolkata", "America/New_York">>

\* zone_str.parse::<Tz>(): the zone rule of a zone identifier
ParseTz(name) ==
    CASE name = "Europe/London" -> 0
      [] name = "Asia/Kolkata" -> 19800
      [] name = "America/New_York" -> -18000

NewClock(zone_str) == [name |-> zone_str, timezone |-> ParseTz(zone_str)]

ClockList(n) ==
    [k \in 1..n |-> NewClock(ZoneNames[((k - 1) % Len(ZoneNames)) + 1])]

Rect(x, y, w, h) == [x |-> x, y |-> y, width |-> w, height |-> h]

LoopCanvases == {Rect(0, 0, 80, 24), Rect(0, 0, 1, 1)}

GridCanvases ==
    {Rect(0, 0, w, h) : w \in 0..MaxW, h \in 0..MaxH} \cup {Rect(0, 0, MaxW, MaxU16)}

MkEvent(type, kind, code, ctrl) ==
    [type |-> type, kind |-> kind, code |-> code, ctrl |-> ctrl]

NoEvent == MkEvent("None", "-", "-", FALSE)

Timeout == MkEvent("Timeout", "-", "-", FALSE)

KeyEvents ==
    {MkEvent("Key", kind, code, ctrl) :
        kind \in {"Press", "Release"}, code \in {"q", "c", "d", " ", "x"},
        ctrl \in BOOLEAN}

Events ==
    KeyEvents \cup
    {MkEvent(type, "-", "-", FALSE) : type \in {"Timeout", "Other", "PollErr", "ReadErr"}}

---------------------------------------------------------------------------
\* Alarm evaluation and dismissal.

\* AlarmMatches with the hour comparison lost
AlarmMatchesMinuteOnly(alarm, now) == Minute(now) = Minute(alarm)

AlarmMatches(alarm, now) ==
    Hour(now) = Hour(alarm) /\ Minute(now) = Minute(alarm)

\* ClearStale resetting on every iteration
ClearStaleAlways(dismissed, now) == None

\* ClearStale with the hour comparison lost
ClearStaleMinuteOnly(dismissed, now) ==
    IF dismissed # None /\ Minute(now) # Minute(dismissed[1]) THEN None ELSE dismissed

\* "Reset dismissal if minute changed"
ClearStale(dismissed, now) ==
    IF dismissed # None
       /\ (Hour(now) # Hour(dismissed[1]) \/ Minute(now) # Minute(dismissed[1]))
    THEN None
    ELSE dismissed

IsAlarmActive(alarm_list, now, dismissed) ==
    (\E k \in 1..Len(alarm_list) : AlarmMatches(alarm_list[k], now))
    /\ dismissed = None

\* Dismiss without the `if is_alarm_active` guard
DismissUnguarded(dismissed, active, now) == Some(HMS(Hour(now), Minute(now), 0))

\* the space / 'd' arm of the key match
\* Dismiss recording the time of the tick as it is
DismissKeepSeconds(dismissed, active, now) ==
    IF active THEN Some(now) ELSE dismissed

Dismiss(dismissed, active, now) ==
    IF active THEN Some(HMS(Hour(now), Minute(now), 0)) ELSE dismissed

\* IsPress without the KeyEventKind::Press test
IsPressAnyKind(e) == e.type = "Key"

IsPress(e) == e.type = "Key" /\ e.kind = "Press"

IsQuit(e) == IsPress(e) /\ (e.code = "q" \/ (e.code = "c" /\ e.ctrl))

\* IsDismiss taking every key that is not a quit
IsDismissAnyKey(e) == IsPress(e) /\ ~IsQuit(e)

IsDismiss(e) == IsPress(e) /\ ~IsQuit(e) /\ (e.code = " " \/ e.code = "d")

IsError(e) == e.type = "PollErr" \/ e.type = "ReadErr"

---------------------------------------------------------------------------
\* Grid layout.

\* (clock_count as f64).sqrt().ceil()
Cols(n) == CHOOSE c \in 0..n : c * c >= n /\ (c = 0 \/ (c - 1) * (c - 1) < n)

\* Rows taking a square grid
RowsSquare(n, c) == c

\* (clock_count as f64 / cols as f64).ceil()
Rows(n, c) == (n + c - 1) \div c

\* the position of the k-th boundary of `parts` equal Ratio(1, parts) segments
\* of a span of `length` cells, rounded to a cell
Boundary(length, parts, k) == (2 * k * length + parts) \div (2 * parts)

\* Split giving every segment the rounded-up share
SplitRoundedUp(start, length, parts) ==
    [k \in 1..parts |->
        [start |-> start + (k - 1) * ((length + parts - 1) \div parts),
         length |-> (length + parts - 1) \div parts]]

\* Layout::split of a span into `parts` segments Ratio(1, parts)
Split(start, length, parts) ==
    [k \in 1..parts |->
        [start |-> start + Boundary(length, parts, k - 1),
         length |-> Boundary(length, parts, k) - Boundary(length, parts, k - 1)]]

SplitVertical(area, parts) ==
    LET segs == Split(area.y, area.height, parts)
    IN  [k \in 1..parts |-> Rect(area.x, segs[k].start, area.width, segs[k].length)]

SplitHorizontal(area, parts) ==
    LET segs == Split(area.x, area.width, parts)
    IN  [k \in 1..parts |-> Rect(segs[k].start, area.y, segs[k].length, area.height)]

\* RowOf taking the remainder
RowOfRemainder(idx, c) == idx % c

\* let row = i / cols
RowOf(idx, c) == idx \div c

\* let col = i % cols
ColOf(idx, c) == idx % c

Min(a, b) == IF a <= b THEN a ELSE b

\* SatSub wrapping around in 16 bits
WrappingSub(a, b) == (a - b) % (MaxU16 + 1)

\* u16::saturating_sub
SatSub(a, b) == IF a >= b THEN a - b ELSE 0

\* let block_height = ..; let v_padding = ..
VPadding(height) == SatSub(SatSub(height, BorderHeight), ContentHeight) \div 2

\* Layout [Length(v_padding), Length(content_height), Min(0)] .split(area)[1]
InnerArea(area) ==
    LET above == Min(VPadding(area.height), area.height)
    IN  Rect(area.x, area.y + above, area.width,
             Min(ContentHeight, area.height - above))

\* RenderUnit highlighting a clock on its own zone's time
RenderUnitOwnZone(clock, area, active, instant) ==
    [name |-> clock.name,
     timezone |-> clock.timezone,
     area |-> area,
     inner_area |-> InnerArea(area),
     time |-> TimeIn(instant, clock.timezone),
     date |-> DateIn(instant, clock.timezone),
     highlight |->
        active /\ \E k \in 1..Len(alarms) :
                     Hour(TimeIn(instant, clock.timezone)) = Hour(alarms[k])
                     /\ Minute(TimeIn(instant, clock.timezone)) = Minute(alarms[k])]

\* what ui renders for one clock
RenderUnit(clock, area, active, instant) ==
    [name |-> clock.name,
     timezone |-> clock.timezone,
     area |-> area,
     inner_area |-> InnerArea(area),
     time |-> TimeIn(instant, clock.timezone),
     date |-> DateIn(instant, clock.timezone),
     highlight |-> active]

---------------------------------------------------------------------------
\* The loop.

\* terminal.draw: with no cursor position set by ui, the cursor is hidden
HideCursor(t) == [t EXCEPT !.cursor = FALSE]

\* the terminal variant opens no window
NoWindow ==
    /\ local_time = None
    /\ messages = <<>>

\* main has set the terminal up and calls run_app
InLoop ==
    /\ mpc = "run"
    /\ args = [zones |-> <<>>, alarms |-> <<>>]
    /\ config_dir = FALSE
    /\ disk = [clocks |-> [state |-> "missing", items |-> <<>>],
               alarms |-> [state |-> "missing", items |-> <<>>]]
    /\ term = [raw |-> TRUE, alt |-> TRUE, cursor |-> TRUE]
    /\ stdout = <<>>
    /\ stderr = <<>>
    /\ main_result = "running"
    /\ calls = {}
    /\ written = [clocks |-> None, alarms |-> None]
    /\ NoWindow

Init ==
    /\ wall \in Instants
    /\ local_tz \in LocalZones
    /\ clocks \in {ClockList(n) : n \in 0..MaxClocks}
    /\ alarms \in AlarmLists
    /\ pc = "tick"
    /\ result = "running"
    /\ dismissed_time = None
    /\ local_now = None
    /\ is_alarm_active = FALSE
    /\ size = Rect(0, 0, 0, 0)
    /\ cols = 0
    /\ rows = 0
    /\ chunks = <<>>
    /\ i = 0
    /\ frame = <<>>
    /\ event = NoEvent
    /\ tick_at = None
    /\ dismissed_at = None
    /\ cleared = FALSE
    /\ InLoop

\* time passes
Advance ==
    /\ pc # "done"
    /\ \E t \in Instants : t > wall /\ wall' = t
    /\ UNCHANGED <<local_tz, clocks, alarms, pc, result, dismissed_time, local_now,
                   is_alarm_active, size, cols, rows, chunks, i, frame, event,
                   tick_at, dismissed_at, cleared, term>>
    /\ UNCHANGED mainvars
    /\ UNCHANGED guivars

\* The top of an iteration: sample the local time, clear a stale dismissal,
\* evaluate the alarms, and enter terminal.draw / ui on a canvas `area`.
Tick(area) ==
    LET now == LocalTime(wall, local_tz)
        dismissed == ClearStale(dismissed_time, now)
        n == Len(clocks)
        c == Cols(n)
        r == Rows(n, c)
    IN  /\ pc = "tick"
        /\ local_now' = Some(now)
        /\ tick_at' = Some(wall)
        /\ dismissed_time' = dismissed
        /\ dismissed_at' =
              IF dismissed_at # None
                 /\ LocalTime(dismissed_at[1], local_tz) \div 60 # now \div 60
              THEN None
              ELSE dismissed_at
        /\ cleared' = (dismissed_time # None /\ dismissed = None)
        /\ is_alarm_active' = IsAlarmActive(alarms, now, dismissed)
        /\ size' = area
        /\ frame' = <<>>
        /\ i' = 0
        /\ event' = NoEvent
        /\ IF n = 0
           THEN /\ cols' = 0
                /\ rows' = 0
                /\ chunks' = <<>>
                /\ pc' = "poll"
                /\ term' = HideCursor(term)
           ELSE /\ cols' = c
                /\ rows' = r
                /\ chunks' = SplitVertical(area, r)
                /\ pc' = "ui"
                /\ UNCHANGED term
        /\ UNCHANGED <<wall, local_tz, clocks, alarms, result>>
        /\ UNCHANGED mainvars
        /\ UNCHANGED guivars

\* One iteration of ui's loop over the clocks.
UiStep ==
    LET row == RowOf(i, cols)
        col == ColOf(i, cols)
    IN  /\ pc = "ui"
        /\ i < Len(clocks)
        /\ IF row >= Len(chunks)
           THEN /\ pc' = "poll"
                /\ UNCHANGED <<i, frame>>
           ELSE LET row_chunks == SplitHorizontal(chunks[row + 1], cols)
                IN  IF col >= Len(row_chunks)
                    THEN /\ pc' = "poll"
                         /\ UNCHANGED <<i, frame>>
                    ELSE /\ frame' = Append(frame,
                                RenderUnit(clocks[i + 1], row_chunks[col + 1],
                                           is_alarm_active, wall))
                         /\ i' = i + 1
                         /\ pc' = IF i + 1 = Len(clocks) THEN "poll" ELSE "ui"
        /\ term' = IF pc' = "poll" THEN HideCursor(term) ELSE term
        /\ UNCHANGED <<wall, local_tz, clocks, alarms, result, dismissed_time,
                       local_now, is_alarm_active, size, cols, rows, chunks, event,
                       tick_at, dismissed_at, cleared>>
        /\ UNCHANGED mainvars
        /\ UNCHANGED guivars

\* terminal.draw(..)? returns an error
DrawFail ==
    /\ pc = "poll"
    /\ pc' = "done"
    /\ result' = "err"
    /\ UNCHANGED <<wall, local_tz, clocks, alarms, dismissed_time, local_now,
                   is_alarm_active, size, cols, rows, chunks, i, frame, event,
                   tick_at, dismissed_at, cleared, term>>
    /\ UNCHANGED mainvars
    /\ UNCHANGED guivars

\* the end of an iteration: the locals of the loop body are dropped
NextIteration ==
    /\ pc' = "tick"
    /\ local_now' = None
    /\ tick_at' = None
    /\ is_alarm_active' = FALSE
    /\ size' = Rect(0, 0, 0, 0)
    /\ cols' = 0
    /\ rows' = 0
    /\ chunks' = <<>>
    /\ i' = 0
    /\ frame' = <<>>
    /\ cleared' = FALSE
    /\ UNCHANGED result

\* event::poll(100 ms) and, when an event is ready, event::read and the key match
Poll(e) ==
    /\ pc = "poll"
    /\ event' = e
    /\ UNCHANGED <<wall, local_tz, clocks, alarms, term>>
    /\ UNCHANGED mainvars
    /\ UNCHANGED guivars
    /\ IF IsError(e)
       THEN /\ pc' = "done"
            /\ result' = "err"
            /\ UNCHANGED <<dismissed_time, dismissed_at, local_now, tick_at,
                           is_alarm_active, size, cols, rows, chunks, i, frame,
                           cleared>>
       ELSE IF IsQuit(e)
       THEN /\ pc' = "done"
            /\ result' = "ok"
            /\ UNCHANGED <<dismissed_time, dismissed_at, local_now, tick_at,
                           is_alarm_active, size, cols, rows, chunks, i, frame,
                           cleared>>
       ELSE IF IsDismiss(e)
       THEN /\ dismissed_time' = Dismiss(dismissed_time, is_alarm_active, local_now[1])
            /\ dismissed_at' = IF is_alarm_active THEN tick_at ELSE dismissed_at
            /\ NextIteration
       ELSE /\ UNCHANGED <<dismissed_time, dismissed_at>>
            /\ NextIteration

Next ==
    \/ Advance
    \/ \E area \in LoopCanvases : Tick(area)
    \/ UiStep
    \/ DrawFail
    \/ \E e \in Events : Poll(e)

Spec == Init /\ [][Next]_vars

---------------------------------------------------------------------------
\* The grid placement alone: every clock count and every canvas up to the
\* bounds, redrawn on a new canvas every iteration, with time standing still.

InitGrid ==
    /\ wall = HMS(8, 30, 0)
    /\ local_tz = 0
    /\ clocks \in {ClockList(n) : n \in 0..MaxGridClocks}
    /\ alarms \in {<<>>, <<HMS(8, 30, 0)>>}
    /\ pc = "tick"
    /\ result = "running"
    /\ dismissed_time = None
    /\ local_now = None
    /\ is_alarm_active = FALSE
    /\ size = Rect(0, 0, 0, 0)
    /\ cols = 0
    /\ rows = 0
    /\ chunks = <<>>
    /\ i = 0
    /\ frame = <<>>
    /\ event = NoEvent
    /\ tick_at = None
    /\ dismissed_at = None
    /\ cleared = FALSE
    /\ InLoop

NextGrid ==
    \/ \E area \in GridCanvases : Tick(area)
    \/ UiStep
    \/ Poll(Timeout)

SpecGrid == InitGrid /\ [][NextGrid]_vars

----------------------------------------------------------------------------
\* Startup and teardown: main around the loop, and the persisted records.
\* A zone identifier is a string; an alarm string is the sequence of its
\* characters; a file is missing (or unreadable), holds text that is not a
\* JSON list of strings, or holds a JSON list of strings.

\* the state of run_app and ui
loopvars == <<wall, local_tz, pc, result, dismissed_time, local_now,
              is_alarm_active, size, cols, rows, chunks, i, frame, event,
              tick_at, dismissed_at, cleared>>

Digits == <<"0", "1", "2", "3", "4", "5", "6", "7", "8", "9">>

IsDigit(ch) == \E d \in 1..Len(Digits) : Digits[d] = ch

DigitValue(ch) == (CHOOSE d \in 1..Len(Digits) : Digits[d] = ch) - 1

DigitChar(n) == Digits[n + 1]

\* a field of one or two digits
Number(field) ==
    IF Len(field) = 1
    THEN DigitValue(field[1])
    ELSE 10 * DigitValue(field[1]) + DigitValue(field[2])

\* NaiveTime::parse_from_str(s, "%H:%M"): one or two digits, a colon, one or
\* two digits, nothing after them, the hour below 24 and the minute below 60
ParseAlarm(s) ==
    LET colon == {p \in 2..3 : /\ p <= Len(s)
                               /\ s[p] = ":"
                               /\ \A q \in 1..(p - 1) : IsDigit(s[q])}
    IN  IF colon = {}
        THEN None
        ELSE LET p == CHOOSE q \in colon : TRUE
                 hh == SubSeq(s, 1, p - 1)
                 mm == SubSeq(s, p + 1, Len(s))
             IN  IF /\ Len(mm) \in 1..2
                    /\ \A q \in 1..Len(mm) : IsDigit(mm[q])
                    /\ Number(hh) <= 23
                    /\ Number(mm) <= 59
                 THEN Some(HMS(Number(hh), Number(mm), 0))
                 ELSE None

\* FormatAlarm writing the seconds too
FormatAlarmWithSeconds(t) ==
    <<DigitChar(Hour(t) \div 10), DigitChar(Hour(t) % 10), ":",
      DigitChar(Minute(t) \div 10), DigitChar(Minute(t) % 10), ":",
      DigitChar(Second(t) \div 10), DigitChar(Second(t) % 10)>>

\* t.format("%H:%M").to_string()
FormatAlarm(t) ==
    <<DigitChar(Hour(t) \div 10), DigitChar(Hour(t) % 10), ":",
      DigitChar(Minute(t) \div 10), DigitChar(Minute(t) % 10)>>

\* zone_str.parse::<Tz>() is Ok
TzOk(zone_str) == \E k \in 1..Len(ZoneNames) : ZoneNames[k] = zone_str

Missing == [state |-> "missing", items |-> <<>>]

\* text that serde_json does not read as a list of strings
Garbage(text) == [state |-> "garbage", items |-> <<text>>]

\* serde_json::to_string of StoredClocks / StoredAlarms
Json(items) == [state |-> "json", items |-> items]

ZoneArgs ==
    {<<>>, <<"Asia/Kolkata", "Europe/London">>, <<"America/New_York">>,
     <<"Asia/Kolkata", "Mars/Olympus">>}

AlarmArgs ==
    {<<>>,
     << <<"8", ":", "3", "0">> >>,
     << <<"0", "9", ":", "3", "0">>, <<"0", "8", ":", "3", "0">> >>,
     << <<"0", "8", ":", "3", "0">>, <<"2", "5", ":", "6", "1">> >>}

ClockFiles ==
    {Missing, Garbage("{"), Json(<<>>), Json(<<"Asia/Kolkata">>),
     Json(<<"Mars/Olympus">>)}

AlarmFiles ==
    {Missing, Garbage(<<"{">>), Json(<< <<"0", "9", ":", "3", "0">> >>),
     Json(<< <<"0", "8", ":", "3", "0">>, <<"b", "o", "g", "u", "s">> >>)}

\* fs::write: done, refused with the file as it was, or broken off with the
\* file cut short
WriteOutcomes == {"ok", "kept", "torn"}

\* Written leaving the file as it was
WrittenKept(file, content, outcome) == file

\* the file after fs::write(path, json)
Written(file, content, outcome) ==
    CASE outcome = "ok" -> Json(content)
      [] outcome = "torn" -> Garbage(IF content = <<>> THEN "[" ELSE content[1])
      [] OTHER -> file

\* LoadClocks taking whatever the file holds as the list
LoadClocksUnparsed(file) == file.items

\* load_clocks
LoadClocks(file) ==
    IF config_dir /\ file.state = "json" THEN file.items ELSE <<>>

\* load_alarms
LoadAlarms(file) ==
    IF config_dir /\ file.state = "json"
    THEN LET parsed == SelectSeq(file.items, LAMBDA s : ParseAlarm(s) # None)
         IN  [k \in 1..Len(parsed) |-> ParseAlarm(parsed[k])[1]]
    ELSE <<>>

DefaultNotice ==
    <<"No timezones specified and no configuration found.",
      "To customize, run: cargo run -- <TimeZones...>",
      "Example: cargo run -- America/New_York Europe/London",
      "Defaulting to Europe/London in 3 seconds...">>

\* DefaultZones leaving an empty list empty
DefaultZonesNone(zone_strs) == zone_strs

\* let zone_strs = if zone_strs.is_empty() { .. vec!["Europe/London"] } else { zone_strs }
DefaultZones(zone_strs) ==
    IF zone_strs = <<>> THEN <<"Europe/London">> ELSE zone_strs

MainCanvas == Rect(0, 0, 80, 24)

MainEvents ==
    {Timeout, MkEvent("Key", "Press", "q", FALSE), MkEvent("Key", "Press", "d", FALSE),
     MkEvent("ReadErr", "-", "-", FALSE)}

\* a process at the entry of main
InitMain ==
    /\ wall = HMS(8, 30, 15)
    /\ local_tz = 0
    /\ clocks = <<>>
    /\ alarms = <<>>
    /\ pc = "idle"
    /\ result = "running"
    /\ dismissed_time = None
    /\ local_now = None
    /\ is_alarm_active = FALSE
    /\ size = Rect(0, 0, 0, 0)
    /\ cols = 0
    /\ rows = 0
    /\ chunks = <<>>
    /\ i = 0
    /\ frame = <<>>
    /\ event = NoEvent
    /\ tick_at = None
    /\ dismissed_at = None
    /\ cleared = FALSE
    /\ mpc = "alarms"
    /\ args \in [zones : ZoneArgs, alarms : AlarmArgs]
    /\ config_dir \in BOOLEAN
    /\ disk \in [clocks : ClockFiles, alarms : AlarmFiles]
    /\ term = [raw |-> FALSE, alt |-> FALSE, cursor |-> TRUE]
    /\ stdout = <<>>
    /\ stderr = <<>>
    /\ main_result = "running"
    /\ calls = {}
    /\ written = [clocks |-> None, alarms |-> None]
    /\ NoWindow

\* "Handle Alarms"
HandleAlarms ==
    /\ mpc = "alarms"
    /\ IF args.alarms # <<>>
       THEN LET bad == {k \in 1..Len(args.alarms) : ParseAlarm(args.alarms[k]) = None}
            IN  IF bad # {}
                THEN LET first == CHOOSE k \in bad : \A j \in bad : k <= j
                     IN  /\ alarms' = [k \in 1..(first - 1) |-> ParseAlarm(args.alarms[k])[1]]
                         /\ stderr' = Append(stderr, [msg |-> "Invalid alarm format",
                                                      arg |-> args.alarms[first]])
                         /\ main_result' = "ok"
                         /\ mpc' = "exit"
                         /\ UNCHANGED <<disk, calls, written>>
                ELSE \E w \in WriteOutcomes :
                     LET parsed == [k \in 1..Len(args.alarms) |-> ParseAlarm(args.alarms[k])[1]]
                         alarm_strings == [k \in 1..Len(parsed) |-> FormatAlarm(parsed[k])]
                         outcome == IF config_dir THEN w ELSE "nodir"
                     IN  /\ alarms' = parsed
                         /\ disk' = [disk EXCEPT !.alarms = Written(@, alarm_strings, outcome)]
                         /\ calls' = calls \cup {<<"save_alarms", outcome>>}
                         /\ written' = [written EXCEPT !.alarms =
                                           CASE outcome = "ok" -> Some(parsed)
                                             [] outcome = "torn" -> None
                                             [] OTHER -> @]
                         /\ mpc' = "clocks"
                         /\ UNCHANGED <<stderr, main_result>>
       ELSE /\ alarms' = LoadAlarms(disk.alarms)
            /\ calls' = calls \cup {<<"load_alarms", "-">>}
            /\ mpc' = "clocks"
            /\ UNCHANGED <<disk, written, stderr, main_result>>
    /\ UNCHANGED <<clocks, args, config_dir, term, stdout>>
    /\ UNCHANGED loopvars
    /\ UNCHANGED guivars

\* "Handle Clocks": save or load, default, and parse the zones
HandleClocks ==
    /\ mpc = "clocks"
    /\ \E w \in WriteOutcomes :
        LET supplied == args.zones # <<>>
            outcome == IF config_dir THEN w ELSE "nodir"
            loaded == IF supplied THEN args.zones ELSE LoadClocks(disk.clocks)
            zone_strs == DefaultZones(loaded)
            bad == {k \in 1..Len(zone_strs) : ~TzOk(zone_strs[k])}
            pushed == IF bad = {}
                      THEN Len(zone_strs)
                      ELSE (CHOOSE k \in bad : \A j \in bad : k <= j) - 1
        IN  /\ IF supplied
               THEN /\ disk' = [disk EXCEPT !.clocks = Written(@, args.zones, outcome)]
                    /\ calls' = calls \cup {<<"save_clocks", outcome>>}
                    /\ written' = [written EXCEPT !.clocks =
                                      CASE outcome = "ok" ->
                                               IF bad = {}
                                               THEN Some([k \in 1..Len(args.zones) |->
                                                             NewClock(args.zones[k])])
                                               ELSE None
                                        [] outcome = "torn" -> None
                                        [] OTHER -> @]
               ELSE /\ calls' = calls \cup {<<"load_clocks", "-">>}
                    /\ UNCHANGED <<disk, written>>
            /\ stdout' = IF loaded = <<>> THEN stdout \o DefaultNotice ELSE stdout
            /\ clocks' = [k \in 1..pushed |-> NewClock(zone_strs[k])]
            /\ IF bad = {}
               THEN /\ mpc' = "setup"
                    /\ UNCHANGED <<stderr, main_result>>
               ELSE /\ stderr' = Append(stderr, [msg |-> "Invalid time zone",
                                                 arg |-> zone_strs[pushed + 1]])
                    /\ main_result' = "ok"
                    /\ mpc' = "exit"
    /\ UNCHANGED <<alarms, args, config_dir, term>>
    /\ UNCHANGED loopvars
    /\ UNCHANGED guivars

\* "Setup terminal" and the entry of run_app
SetupTerminal ==
    /\ mpc = "setup"
    /\ \E failed \in {"none", "enable_raw_mode", "EnterAlternateScreen", "Terminal::new"} :
        /\ term' = CASE failed = "enable_raw_mode" -> term
                     [] failed = "EnterAlternateScreen" -> [term EXCEPT !.raw = TRUE]
                     [] OTHER -> [term EXCEPT !.raw = TRUE, !.alt = TRUE]
        /\ IF failed = "none"
           THEN /\ mpc' = "run"
                /\ pc' = "tick"
                /\ UNCHANGED main_result
           ELSE /\ mpc' = "exit"
                /\ main_result' = "err"
                /\ UNCHANGED pc
    /\ UNCHANGED <<wall, local_tz, clocks, alarms, result, dismissed_time, local_now,
                   is_alarm_active, size, cols, rows, chunks, i, frame, event,
                   tick_at, dismissed_at, cleared>>
    /\ UNCHANGED <<args, config_dir, disk, stdout, stderr, calls, written>>
    /\ UNCHANGED guivars

\* "Restore terminal", the report of the loop's error, and main's return
RestoreTerminal ==
    /\ mpc = "run"
    /\ pc = "done"
    /\ \E failed \in {"none", "disable_raw_mode", "LeaveAlternateScreen", "show_cursor"} :
        /\ term' = CASE failed = "disable_raw_mode" -> term
                     [] failed = "LeaveAlternateScreen" -> [term EXCEPT !.raw = FALSE]
                     [] failed = "show_cursor" -> [term EXCEPT !.raw = FALSE, !.alt = FALSE]
                     [] OTHER -> [raw |-> FALSE, alt |-> FALSE, cursor |-> TRUE]
        /\ IF failed = "none"
           THEN /\ stdout' = IF result = "err" THEN Append(stdout, "{:?}") ELSE stdout
                /\ main_result' = "ok"
           ELSE /\ main_result' = "err"
                /\ UNCHANGED stdout
    /\ mpc' = "exit"
    /\ UNCHANGED <<clocks, alarms>>
    /\ UNCHANGED loopvars
    /\ UNCHANGED guivars
    /\ UNCHANGED <<args, config_dir, disk, stderr, calls, written>>

\* the process has ended; the next one starts on the files it left
NewRun ==
    /\ mpc = "exit"
    /\ mpc' = "alarms"
    /\ args' \in [zones : ZoneArgs, alarms : AlarmArgs]
    /\ config_dir' \in BOOLEAN
    /\ clocks' = <<>>
    /\ alarms' = <<>>
    /\ pc' = "idle"
    /\ result' = "running"
    /\ dismissed_time' = None
    /\ dismissed_at' = None
    /\ event' = NoEvent
    /\ local_now' = None
    /\ tick_at' = None
    /\ is_alarm_active' = FALSE
    /\ size' = Rect(0, 0, 0, 0)
    /\ cols' = 0
    /\ rows' = 0
    /\ chunks' = <<>>
    /\ i' = 0
    /\ frame' = <<>>
    /\ cleared' = FALSE
    /\ term' = [raw |-> FALSE, alt |-> FALSE, cursor |-> TRUE]
    /\ stdout' = <<>>
    /\ stderr' = <<>>
    /\ main_result' = "running"
    /\ calls' = {}
    /\ UNCHANGED <<wall, local_tz, disk, written>>
    /\ UNCHANGED guivars

NextMain ==
    \/ HandleAlarms
    \/ HandleClocks
    \/ SetupTerminal
    \/ Tick(MainCanvas)
    \/ UiStep
    \/ DrawFail
    \/ \E e \in MainEvents : Poll(e)
    \/ RestoreTerminal
    \/ NewRun

SpecMain == InitMain /\ [][NextMain]_vars

----------------------------------------------------------------------------
\* The windowed variant (src/gui.rs): WorldClockApp with its one message.
\* pc is "view" when the runtime is about to call view and "wait" when it
\* waits for a message; frame holds what the last view built.

\* GuiIsAlarmActive comparing the hour only
GuiIsAlarmActiveHourOnly(alarm_list, time) ==
    \E k \in 1..Len(alarm_list) : Hour(time) = Hour(alarm_list[k])

\* let is_alarm_active = self.alarms.iter().any(..)
GuiIsAlarmActive(alarm_list, time) ==
    \E k \in 1..Len(alarm_list) :
        Hour(time) = Hour(alarm_list[k]) /\ Minute(time) = Minute(alarm_list[k])

\* the container view builds for one clock
GuiUnit(clock, active, instant) ==
    [name |-> clock.name,
     time |-> TimeIn(instant, clock.timezone),
     date |-> DateIn(instant, clock.timezone),
     highlight |-> active]

\* keyboard input reaching the window
WindowEvents ==
    {MkEvent("Key", "Press", code, FALSE) : code \in {"d", " ", "q"}}

\* WorldClockApp::new
InitGui ==
    /\ wall \in Instants
    /\ local_tz \in LocalZones
    /\ clocks \in {ClockList(n) : n \in 0..MaxClocks}
    /\ alarms \in AlarmLists
    /\ local_time = LocalTime(wall, local_tz)
    /\ messages = <<>>
    /\ pc = "view"
    /\ result = "running"
    /\ dismissed_time = None
    /\ local_now = None
    /\ is_alarm_active = FALSE
    /\ size = Rect(0, 0, 0, 0)
    /\ cols = 0
    /\ rows = 0
    /\ chunks = <<>>
    /\ i = 0
    /\ frame = <<>>
    /\ event = NoEvent
    /\ tick_at = None
    /\ dismissed_at = None
    /\ cleared = FALSE
    /\ mpc = "window"
    /\ args = [zones |-> <<>>, alarms |-> <<>>]
    /\ config_dir = FALSE
    /\ disk = [clocks |-> [state |-> "missing", items |-> <<>>],
               alarms |-> [state |-> "missing", items |-> <<>>]]
    /\ term = [raw |-> FALSE, alt |-> FALSE, cursor |-> TRUE]
    /\ stdout = <<>>
    /\ stderr = <<>>
    /\ main_result = "running"
    /\ calls = {}
    /\ written = [clocks |-> None, alarms |-> None]

\* what no action of the window touches
guiframe == <<local_tz, clocks, alarms, result, dismissed_time, local_now, size,
              cols, rows, chunks, i, tick_at, dismissed_at, cleared, term>>

\* the timer of subscription fires: Message::Tick(Local::now().time()) is sent
Subscription ==
    /\ Len(messages) < MaxMessages
    /\ messages' = Append(messages, LocalTime(wall, local_tz))
    /\ UNCHANGED <<wall, pc, local_time, is_alarm_active, frame, event>>
    /\ UNCHANGED guiframe
    /\ UNCHANGED mainvars

\* update(Message::Tick(time))
Update ==
    /\ pc = "wait"
    /\ messages # <<>>
    /\ local_time' = Head(messages)
    /\ messages' = Tail(messages)
    /\ pc' = "view"
    /\ UNCHANGED <<wall, is_alarm_active, frame, event>>
    /\ UNCHANGED guiframe
    /\ UNCHANGED mainvars

\* view
View ==
    /\ pc = "view"
    /\ is_alarm_active' = GuiIsAlarmActive(alarms, local_time)
    /\ frame' = [k \in 1..Len(clocks) |->
                    GuiUnit(clocks[k], GuiIsAlarmActive(alarms, local_time), wall)]
    /\ pc' = "wait"
    /\ UNCHANGED <<wall, local_time, messages, event>>
    /\ UNCHANGED guiframe
    /\ UNCHANGED mainvars

\* an input event: the application subscribes to none, so no message is made
WindowEvent(e) ==
    /\ pc = "wait"
    /\ event' = e
    /\ UNCHANGED <<wall, pc, local_time, messages, is_alarm_active, frame>>
    /\ UNCHANGED guiframe
    /\ UNCHANGED mainvars

NextGui ==
    \/ Advance
    \/ Subscription
    \/ Update
    \/ View
    \/ \E e \in WindowEvents : WindowEvent(e)

SpecGui == InitGui /\ [][NextGui]_vars

---------------------------------------------------------------------------
\* Properties.

\* the iteration has sampled, cleared and evaluated, and has not yet ended
InTick == pc \in {"ui", "poll"}

\* the step that samples, clears and evaluates
TickStep == pc = "tick" /\ pc' # "tick"

\* the step that takes this iteration's input
Polled == pc = "poll" /\ event' # event

\* the minute of the day a time of day lies in: hour * 60 + minute
MinuteOfDay(t) == t \div 60

\* the minute since day 0 an instant lies in, by the local-time rule
LocalMinute(instant) == (instant + local_tz) \div 60

SomeAlarmInMinute(t) ==
    \E k \in 1..Len(alarms) : MinuteOfDay(alarms[k]) = MinuteOfDay(t)

\* a 'q' press or a Ctrl-C press
QuitSignal(e) ==
    /\ e.type = "Key"
    /\ e.kind = "Press"
    /\ (e.code = "q" \/ (e.code = "c" /\ e.ctrl))

\* a space press or a 'd' press
DismissSignal(e) ==
    /\ e.type = "Key"
    /\ e.kind = "Press"
    /\ e.code \in {" ", "d"}

\* the history of the dismissal agrees with the dismissal
HistoryAgrees ==
    /\ (dismissed_at = None) = (dismissed_time = None)
    /\ dismissed_at # None
        => MinuteOfDay(dismissed_time[1]) = LocalMinute(dismissed_at[1]) % 1440

\* C1: with no dismissal recorded, the flag of an iteration is true exactly
\* when some alarm lies in the same hour and minute as the iteration's
\* local_now, whatever its seconds.
C1_MinuteGranularMatch ==
    (InTick /\ dismissed_time = None)
        => (is_alarm_active <=> SomeAlarmInMinute(local_now[1]))

C1_Witness ==
    /\ InTick
    /\ dismissed_time = None
    /\ is_alarm_active
    /\ Second(local_now[1]) = 59

\* C2: after a dismissal is taken in an iteration, every iteration that
\* samples a local time of the same hour and minute, with no iteration
\* between them sampling another, computes the flag false.
C2_DismissalSilencesItsMinute ==
    [][(TickStep /\ dismissed_at # None
        /\ MinuteOfDay(local_now'[1]) = LocalMinute(dismissed_at[1]) % 1440)
       => ~is_alarm_active']_vars

C2_Witness ==
    /\ InTick
    /\ dismissed_at # None
    /\ tick_at # dismissed_at
    /\ LocalMinute(tick_at[1]) = LocalMinute(dismissed_at[1])
    /\ SomeAlarmInMinute(local_now[1])
    /\ ~is_alarm_active

\* C3: an iteration whose local time matches an alarm and lies in another
\* minute (of another hour or day, too) than the one the last dismissal was
\* taken in computes the flag true.
C3_DismissalNeverOutlivesItsMinute ==
    (InTick /\ dismissed_at # None
     /\ LocalMinute(tick_at[1]) # LocalMinute(dismissed_at[1])
     /\ SomeAlarmInMinute(local_now[1]))
        => is_alarm_active

\* C4: the loop starts with no dismissal; once an iteration has evaluated,
\* a recorded dismissal has the hour and minute of its local_now; and an
\* iteration that finds a dismissal of another hour or minute resets it
\* before it evaluates.
C4_StaleDismissalCleared ==
    /\ dismissed_time = None
    /\ [](InTick /\ dismissed_time # None
            => MinuteOfDay(dismissed_time[1]) = MinuteOfDay(local_now[1]))
    /\ [][(TickStep /\ dismissed_time # None
           /\ MinuteOfDay(dismissed_time[1]) # MinuteOfDay(local_now'[1]))
          => /\ dismissed_time' = None
             /\ is_alarm_active' = SomeAlarmInMinute(local_now'[1])]_vars

C4_Witness ==
    /\ InTick
    /\ cleared
    /\ dismissed_time = None
    /\ is_alarm_active

\* C5: a space or 'd' press taken while the flag is true sets the dismissal
\* to the hour and minute of local_now with seconds zero; taken while the
\* flag is false it leaves the dismissal as it was.
C5_DismissOnlyWhileActive ==
    [][(Polled /\ DismissSignal(event'))
       => IF is_alarm_active
          THEN dismissed_time' = Some(MinuteOfDay(local_now[1]) * 60)
          ELSE dismissed_time' = dismissed_time]_vars

C5_Witness ==
    /\ pc = "tick"
    /\ DismissSignal(event)
    /\ dismissed_time = Some(HMS(8, 30, 0))
    /\ dismissed_at # None
    /\ Second(LocalTime(dismissed_at[1], local_tz)) = 15

\* C6: every unit a draw has emitted carries the iteration's flag as its
\* highlight.
C6_HighlightIsGlobal ==
    \A j \in 1..Len(frame) : frame[j].highlight = is_alarm_active

C6_Witness ==
    /\ Len(frame) = 2
    /\ is_alarm_active
    /\ \A j \in 1..Len(frame) : frame[j].highlight
    /\ \E j \in 1..Len(frame) : ~SomeAlarmInMinute(frame[j].time)

\* the instant a unit's time and date were converted from
UnitInstant(u) == u.date * 86400 + u.time - u.timezone

\* C7: the units of a draw show one and the same instant, and it is the
\* instant the iteration's local_now was taken from.
C7_SingleSharedInstant ==
    InTick =>
        \A j \in 1..Len(frame) :
            /\ TimeIn(UnitInstant(frame[j]), local_tz) = local_now[1]
            /\ \A k \in 1..Len(frame) : UnitInstant(frame[j]) = UnitInstant(frame[k])

\* C8: the loop starts Running; a 'q' press or a Ctrl-C press taken at the
\* poll ends the loop in that step with Ok and changes neither the
\* dismissal nor what was rendered; once ended the loop takes no step; any
\* other input keeps the loop Running; and the loop ends with Ok only on a
\* quit.
C8_Lifecycle ==
    /\ (pc = "tick" /\ result = "running")
    /\ [](result = "running" <=> pc # "done")
    /\ [][/\ (Polled /\ QuitSignal(event'))
             => /\ pc' = "done"
                /\ result' = "ok"
                /\ UNCHANGED <<dismissed_time, frame, local_now, is_alarm_active, i>>
          /\ pc = "done" => UNCHANGED vars
          /\ (Polled /\ ~QuitSignal(event') /\ event'.type \in {"Timeout", "Other", "Key"})
             => (pc' = "tick" /\ result' = "running")
          /\ (result = "running" /\ result' = "ok")
             => (Polled /\ QuitSignal(event'))]_vars

C8_Witness ==
    /\ pc = "done"
    /\ result = "ok"
    /\ event = MkEvent("Key", "Press", "c", TRUE)
    /\ dismissed_time # None
    /\ Len(frame) = 2

\* a rectangle lies inside another
Within(r, outer) ==
    /\ outer.x <= r.x
    /\ outer.y <= r.y
    /\ r.x + r.width <= outer.x + outer.width
    /\ r.y + r.height <= outer.y + outer.height

\* two rectangles share a cell
Overlap(a, b) ==
    /\ a.x < b.x + b.width
    /\ b.x < a.x + a.width
    /\ a.y < b.y + b.height
    /\ b.y < a.y + a.height

\* C9: a draw places the clocks in order, one rectangle each, every
\* rectangle inside the canvas and no two sharing a cell, and it ends only
\* when every clock is placed.
C9_GridPlacesEveryClock ==
    /\ pc = "ui" => (Len(frame) = i /\ i < Len(clocks))
    /\ pc = "poll" => Len(frame) = Len(clocks)
    /\ \A j \in 1..Len(frame) :
        /\ frame[j].name = clocks[j].name
        /\ Within(frame[j].area, size)
        /\ \A k \in 1..Len(frame) : j # k => ~Overlap(frame[j].area, frame[k].area)

C9_Witness ==
    /\ pc = "poll"
    /\ Len(clocks) = 5
    /\ Len(frame) = 5
    /\ size.width < cols
    /\ size.height < rows

\* C10: for one clock or more the grid of a draw has room for every clock
\* and no row that stays empty.
C10_GridDimensions ==
    (InTick /\ Len(clocks) >= 1)
        => /\ cols * rows >= Len(clocks)
           /\ cols * (rows - 1) < Len(clocks)

C10_Witness ==
    /\ pc = "poll"
    /\ Len(clocks) = 5
    /\ cols = 3
    /\ rows = 2

\* the rectangle of cell `cell` of band `band` of the grid of this draw
CellArea(band, cell) ==
    Rect(size.x + Boundary(size.width, cols, cell),
         size.y + Boundary(size.height, rows, band),
         Boundary(size.width, cols, cell + 1) - Boundary(size.width, cols, cell),
         Boundary(size.height, rows, band + 1) - Boundary(size.height, rows, band))

\* C11: the clock of index j is placed in cell j % cols of band j / cols,
\* clocks of distinct indices in distinct cells, and when the draw ends the
\* cells left unused are trailing cells of the last band.
C11_RowMajorPlacement ==
    /\ \A j \in 1..Len(frame) :
        /\ frame[j].area = CellArea((j - 1) \div cols, (j - 1) % cols)
        /\ (j - 1) \div cols < rows
        /\ \A k \in 1..Len(frame) :
            j # k => <<(j - 1) \div cols, (j - 1) % cols>>
                        # <<(k - 1) \div cols, (k - 1) % cols>>
    /\ (pc = "poll" /\ Len(clocks) >= 1)
        => \A cell \in 0..(rows * cols - 1) :
            (\A j \in 1..Len(frame) : cell # (j - 1))
                => (cell \div cols = rows - 1 /\ cell >= Len(frame))

C11_Witness ==
    /\ pc = "poll"
    /\ Len(frame) = 5
    /\ cols = 3
    /\ rows = 2
    /\ size = Rect(0, 0, 3, 2)
    /\ frame[5].area = Rect(1, 1, 1, 1)
    /\ \A j \in 1..Len(frame) : frame[j].area # Rect(2, 1, 1, 1)

\* C18: the content of a unit starts max(0, (max(0, height - 2) - 4) / 2)
\* rows below the top of its rectangle, takes at most 4 rows, lies inside
\* the rectangle, and leaves below it at least the space it leaves above.
C18_VerticalCentering ==
    \A j \in 1..Len(frame) :
        LET area == frame[j].area
            inner == frame[j].inner_area
            inner_height == IF area.height >= 2 THEN area.height - 2 ELSE 0
            above == IF inner_height >= 4 THEN (inner_height - 4) \div 2 ELSE 0
            below == (area.y + area.height) - (inner.y + inner.height)
        IN  /\ inner.y - area.y = above
            /\ 0 <= above /\ above <= MaxU16
            /\ inner.height = (IF area.height >= 4 THEN 4 ELSE area.height)
            /\ below >= above
            /\ above + inner.height + below = area.height

C18_Witness ==
    /\ Len(frame) = 1
    /\ frame[1].area.height = MaxH
    /\ frame[1].inner_area.y > frame[1].area.y

\* C19: no step of the loop changes the clocks or the alarms, and a poll
\* that times out, or returns an event that is not a key, a key event that
\* is not a press, or a press of a key that is neither a quit nor a dismiss
\* signal, leaves the dismissal as it was and the loop running.
C19_OnlyDismissalMutates ==
    [][/\ clocks' = clocks
       /\ alarms' = alarms
       /\ (/\ Polled
           /\ \/ event'.type \in {"Timeout", "Other"}
              \/ (event'.type = "Key" /\ event'.kind # "Press")
              \/ (event'.type = "Key" /\ ~QuitSignal(event') /\ ~DismissSignal(event')))
          => /\ dismissed_time' = dismissed_time
             /\ pc' # "done"
             /\ result' = "running"]_vars

C19_Witness ==
    /\ pc = "tick"
    /\ event = MkEvent("Key", "Press", "x", FALSE)
    /\ dismissed_time = Some(HMS(8, 30, 0))
    /\ Len(clocks) = MaxClocks
    /\ Len(alarms) = 2

\* C20: a recorded dismissal has seconds zero and the hour and minute of
\* one of the alarms; with no alarms there is no dismissal.
C20_DismissalNamesAnAlarmMinute ==
    /\ dismissed_time # None
        => /\ Second(dismissed_time[1]) = 0
           /\ \E k \in 1..Len(alarms) :
                /\ Hour(alarms[k]) = Hour(dismissed_time[1])
                /\ Minute(alarms[k]) = Minute(dismissed_time[1])
    /\ alarms = <<>> => dismissed_time = None

C20_Witness ==
    /\ dismissed_time = Some(HMS(8, 30, 0))
    /\ dismissed_at # None
    /\ Second(LocalTime(dismissed_at[1], local_tz)) = 59
    /\ alarms = <<HMS(9, 30, 0), HMS(8, 30, 0)>>

\* the step of main that handles the alarms / the clocks
AlarmsHandled == mpc = "alarms" /\ mpc' # "alarms"

ClocksHandled == mpc = "clocks" /\ mpc' # "clocks"

\* the render cycle is running
Running == pc \in {"tick", "ui", "poll"}

\* the alarm record / the zone record can be read as a list
AlarmRecordReadable == config_dir /\ disk.alarms.state = "json"

ZoneRecordReadable == config_dir /\ disk.clocks.state = "json"

\* the strings this process takes as its alarms and as its zones
InputAlarms ==
    IF args.alarms # <<>> THEN args.alarms
    ELSE IF AlarmRecordReadable THEN disk.alarms.items ELSE <<>>

InputZones ==
    IF args.zones # <<>> THEN args.zones
    ELSE IF ZoneRecordReadable THEN disk.clocks.items ELSE <<>>

MalformedAlarm(strs) == \E k \in 1..Len(strs) : ParseAlarm(strs[k]) = None

MalformedZone(strs) == \E k \in 1..Len(strs) : ~TzOk(strs[k])

ConfigErrorReported ==
    \E k \in 1..Len(stderr) :
        stderr[k].msg \in {"Invalid alarm format", "Invalid time zone"}

\* the part of C12 about the command line and the zone record
C12_CommandLineAndZones ==
    (MalformedAlarm(args.alarms) \/ (mpc # "alarms" /\ MalformedZone(InputZones)))
        => /\ pc = "idle"
           /\ mpc \notin {"setup", "run"}
           /\ mpc = "exit" => ConfigErrorReported

\* C12: a process one of whose input strings, from the command line or from
\* the record read in its place, is malformed never enters the render
\* cycle and has reported the error when it ends.
C12_ConfigErrorsStopTheRun ==
    (MalformedAlarm(InputAlarms) \/ (mpc # "alarms" /\ MalformedZone(InputZones)))
        => /\ pc = "idle"
           /\ mpc \notin {"setup", "run"}
           /\ mpc = "exit" => ConfigErrorReported

\* the values of the alarm strings of the command line
ArgAlarms == [k \in 1..Len(args.alarms) |-> ParseAlarm(args.alarms[k])[1]]

\* the alarm record holds exactly the alarms of the command line
AlarmRecordHoldsArgs(d) ==
    /\ d.alarms.state = "json"
    /\ Len(d.alarms.items) = Len(args.alarms)
    /\ \A k \in 1..Len(args.alarms) :
        ParseAlarm(d.alarms.items[k]) = ParseAlarm(args.alarms[k])

Saved(fn) == \E o \in WriteOutcomes \cup {"nodir"} : <<fn, o>> \in calls

\* C13 as stated: once the startup has handled a record, the record holds
\* exactly the values of the command line if it gives any, and otherwise
\* has been read and not written.
C13_WrittenWheneverSupplied ==
    /\ (mpc # "alarms" /\ args.alarms # <<>>)
        => (~MalformedAlarm(args.alarms) /\ AlarmRecordHoldsArgs(disk))
    /\ (mpc # "alarms" /\ args.alarms = <<>>)
        => (<<"load_alarms", "-">> \in calls /\ ~Saved("save_alarms"))
    /\ (mpc \in {"setup", "run", "exit"} /\ args.zones # <<>>)
        => disk.clocks = [state |-> "json", items |-> args.zones]
    /\ (mpc \in {"setup", "run", "exit"} /\ args.zones = <<>>)
        => (<<"load_clocks", "-">> \in calls /\ ~Saved("save_clocks"))

\* C13: the step that handles a record of which the command line gives
\* values writes exactly those values when the alarm strings all parse, the
\* config directory is there and the write succeeds, and then holds the record;
\* with a malformed alarm string nothing is written; a record of which the
\* command line gives no values is never written by the process, and has
\* been read once the startup is past its handling.
C13_WrittenWhenAcceptedAndWritable ==
    [][/\ (AlarmsHandled /\ args.alarms # <<>>)
            => IF MalformedAlarm(args.alarms)
               THEN disk' = disk /\ calls' = calls /\ mpc' = "exit"
               ELSE /\ \E o \in WriteOutcomes \cup {"nodir"} :
                        calls' = calls \cup {<<"save_alarms", o>>}
                    /\ <<"save_alarms", "ok">> \in calls' => AlarmRecordHoldsArgs(disk')
                    /\ disk'.clocks = disk.clocks
       /\ (ClocksHandled /\ args.zones # <<>>)
            => /\ \E o \in WriteOutcomes \cup {"nodir"} :
                    calls' = calls \cup {<<"save_clocks", o>>}
               /\ <<"save_clocks", "ok">> \in calls'
                    => disk'.clocks = [state |-> "json", items |-> args.zones]
               /\ disk'.alarms = disk.alarms
       /\ (args.alarms = <<>> /\ mpc # "exit")
            => /\ disk'.alarms = disk.alarms
               /\ ~Saved("save_alarms")'
               /\ mpc' \in {"clocks", "setup", "run"} => <<"load_alarms", "-">> \in calls'
       /\ (args.zones = <<>> /\ mpc # "exit")
            => /\ disk'.clocks = disk.clocks
               /\ ~Saved("save_clocks")'
               /\ mpc' \in {"setup", "run"} => <<"load_clocks", "-">> \in calls'
      ]_vars

C13_Witness ==
    /\ mpc = "setup"
    /\ <<"save_alarms", "ok">> \in calls
    /\ <<"save_clocks", "ok">> \in calls
    /\ args.alarms = << <<"8", ":", "3", "0">> >>
    /\ disk.alarms.items = << <<"0", "8", ":", "3", "0">> >>
    /\ disk.clocks.items = <<"Asia/Kolkata", "Europe/London">>

\* C14: a process with no zones and no alarms on its command line, reading
\* records that a process wrote from a command line it accepted, builds the
\* Clock list and the alarm list that process built, and reports no error.
C14_RoundTrip ==
    (args.zones = <<>> /\ args.alarms = <<>> /\ config_dir)
        => /\ (written.alarms # None /\ mpc # "alarms")
                => alarms = written.alarms[1]
           /\ (written.clocks # None /\ mpc \in {"setup", "run", "exit"})
                => (clocks = written.clocks[1] /\ ~ConfigErrorReported)

C14_Witness ==
    /\ args.zones = <<>>
    /\ args.alarms = <<>>
    /\ pc = "poll"
    /\ written.alarms = Some(<<HMS(9, 30, 0), HMS(8, 30, 0)>>)
    /\ alarms = <<HMS(9, 30, 0), HMS(8, 30, 0)>>
    /\ written.clocks # None
    /\ Len(clocks) = 2
    /\ clocks[1].name = "Asia/Kolkata"
    /\ clocks[2].name = "Europe/London"

Restored == term = [raw |-> FALSE, alt |-> FALSE, cursor |-> TRUE]

\* a failure inside the loop ends the loop on the spot, and no tick follows
C15_ExitsAtOnce ==
    [][/\ (result = "running" /\ result' = "err")
            => (pc' = "done" /\ UNCHANGED <<dismissed_time, frame, clocks, alarms>>)
       /\ pc = "done" => pc' \in {"done", "idle"}]_vars

\* the error of the loop is printed with the terminal restored
C15_RestoredBeforeReport ==
    [][(Len(stdout') > Len(stdout) /\ stdout'[Len(stdout')] = "{:?}")
            => (result = "err" /\ Restored')]_vars

\* a process whose loop failed returns a failure
C15_PropagatedAsFailure ==
    (mpc = "exit" /\ result = "err") => main_result = "err"

\* C15: when draw, poll or read fails the loop ends at once, the terminal is
\* restored before the error is printed, and main returns the failure.
C15_LoopErrorIsFatal ==
    /\ C15_ExitsAtOnce
    /\ C15_RestoredBeforeReport
    /\ []C15_PropagatedAsFailure

London == [name |-> "Europe/London", timezone |-> 0]

\* C16: a record that cannot be read gives the empty alarm list and the
\* default zone, a command line whose values all parse gives its values
\* whatever the write does, in both cases the startup goes on and prints no
\* error, and main fails only on the terminal.
C16_PersistenceErrorsIgnored ==
    [][/\ AlarmsHandled =>
            /\ (args.alarms = <<>> /\ ~AlarmRecordReadable)
                => (alarms' = <<>> /\ mpc' = "clocks" /\ stderr' = stderr)
            /\ (args.alarms # <<>> /\ ~MalformedAlarm(args.alarms))
                => (alarms' = ArgAlarms /\ mpc' = "clocks" /\ stderr' = stderr)
            /\ stdout' = stdout
       /\ ClocksHandled =>
            /\ (args.zones = <<>> /\ ~ZoneRecordReadable)
                => (clocks' = <<London>> /\ mpc' = "setup" /\ stderr' = stderr)
            /\ (args.zones # <<>> /\ ~MalformedZone(args.zones))
                => /\ Len(clocks') = Len(args.zones)
                   /\ \A k \in 1..Len(args.zones) : clocks'[k].name = args.zones[k]
                   /\ mpc' = "setup"
                   /\ stderr' = stderr
                   /\ stdout' = stdout
       /\ main_result' = "err" => mpc \in {"setup", "run", "exit"}
      ]_vars

C16_Witness ==
    /\ pc = "poll"
    /\ <<"save_alarms", "kept">> \in calls
    /\ <<"save_clocks", "torn">> \in calls
    /\ disk.clocks.state = "garbage"
    /\ Len(clocks) = 2
    /\ Len(alarms) = 2
    /\ stderr = <<>>
    /\ stdout = <<>>

\* C17: the render cycle runs on at least one clock, the layout has at
\* least one column when a draw ends, and a startup that gets no zone from
\* the command line or the record runs on Europe/London alone, with the
\* notice printed.
C17_LoopNeverEmpty ==
    /\ Running => Len(clocks) >= 1
    /\ pc = "poll" => (cols >= 1 /\ rows >= 1)
    /\ (/\ mpc \in {"setup", "run"}
        /\ args.zones = <<>>
        /\ (~ZoneRecordReadable \/ disk.clocks.items = <<>>))
        => /\ clocks = <<London>>
           /\ \E k \in 1..Len(stdout) :
                stdout[k] = "Defaulting to Europe/London in 3 seconds..."

C17_Witness ==
    /\ pc = "poll"
    /\ args.zones = <<>>
    /\ disk.clocks = [state |-> "json", items |-> <<>>]
    /\ config_dir
    /\ Len(frame) = 1
    /\ frame[1].name = "Europe/London"
    /\ Len(stdout) = 4

\* the terminal variant's flag with no dismissal recorded differs from its
\* flag with the minute of `time` dismissed
DismissalWouldSilence(time) ==
    /\ IsAlarmActive(alarms, time, None)
    /\ ~IsAlarmActive(alarms, time, Some(HMS(Hour(time), Minute(time), 0)))

\* C21: local_time is what the last Tick message handled carried; after
\* every view the highlight, of the view and of each of its units, is on
\* exactly when some alarm has the hour and minute of local_time, which is
\* the flag the terminal loop computes with no dismissal recorded; and no
\* step leaves the window waiting with the highlight off while local_time
\* is in the minute of an alarm.
C21_WindowHasNoDismissal ==
    /\ [](pc = "wait" =>
            /\ is_alarm_active = SomeAlarmInMinute(local_time)
            /\ is_alarm_active = IsAlarmActive(alarms, local_time, None)
            /\ Len(frame) = Len(clocks)
            /\ \A k \in 1..Len(frame) : frame[k].highlight = is_alarm_active)
    /\ [][/\ local_time' # local_time
                => (messages # <<>> /\ local_time' = Head(messages))
          /\ (pc' = "wait" /\ SomeAlarmInMinute(local_time')) => is_alarm_active'
          /\ event' # event => UNCHANGED <<local_time, is_alarm_active, frame>>]_vars

C21_Witness ==
    /\ pc = "wait"
    /\ event = MkEvent("Key", "Press", "d", FALSE)
    /\ local_time = HMS(8, 30, 15)
    /\ LocalTime(wall, local_tz) = HMS(8, 30, 59)
    /\ DismissalWouldSilence(local_time)
    /\ is_alarm_active
    /\ Len(frame) = MaxClocks
    /\ frame[1].highlight

====
